---- MODULE Spec2Model ----
\* Model of the whx speaker tooling: the flat-file profile store
\* (scripts/utils.py, scripts/extract_speaker_embedding.py) and the
\* matcher / renderer (scripts/match_speakers.py).
\*
\* Text is modelled as a sequence of one-character strings, so that
\* str.title(), str.replace(), str.startswith(), str.strip(), sorted() and
\* the f-string formatting are computed and not assumed.
EXTENDS Integers, Sequences, FiniteSets, TLC

VARIABLES
    \* ---- profile store on disk
    dirExists,      \* the store directory exists
    vectors,        \* speaker id -> state of <id>.npy
    metaFile,       \* state of speakers.json
    \* ---- the store process that is running (one at a time)
    op,             \* "none" | "enroll" | "delete" | "load"
    pc,             \* position in the running process
    args,           \* its command line / call arguments
    metadata,       \* its in-memory copy of the metadata dict
    result,         \* value returned by delete_speaker: "none" | "True" | "False"
    pre,            \* the store as it was when the process started
    \* ---- speaker profiles in memory (load_speaker_profiles' dict, in
    \* insertion order: a sequence of [name, embedding] records)
    profiles,
    \* ---- match_speakers
    json_data,      \* the transcript: a sequence of segment records
    threshold,      \* similarity threshold, in hundredths
    mapping,        \* label -> resolved name, as built so far
    todo,           \* sorted(speakers) still to process
    calls,          \* the Embedding Provider invocations made, in order
    speaker_embedding,  \* label -> what extract_embedding_for_speaker returned
    mpc,            \* position in match_speakers
    \* ---- rendering (match_speakers.py main, after the matching)
    header,         \* speaker_mapping_for_header: None or a dict
    lines,          \* the lines generate_txt_output writes
    rpc             \* position in main

storeVars == <<dirExists, vectors, metaFile, op, pc, args, metadata, result, pre>>
matchVars == <<json_data, threshold, mapping, todo, calls, speaker_embedding, mpc>>

renderVars == <<header, lines, rpc>>

vars == <<storeVars, profiles, matchVars, renderVars>>

\* ---------------------------------------------------------------- text

Lowers == <<"a", "b", "c">>
Uppers == <<"A", "B", "C">>

IsLower(c) == \E i \in DOMAIN Lowers : Lowers[i] = c
IsUpper(c) == \E i \in DOMAIN Uppers : Uppers[i] = c
IsCased(c) == IsLower(c) \/ IsUpper(c)

ToUpper(c) == IF IsLower(c) THEN Uppers[CHOOSE i \in DOMAIN Lowers : Lowers[i] = c] ELSE c
ToLower(c) == IF IsUpper(c) THEN Lowers[CHOOSE i \in DOMAIN Uppers : Uppers[i] = c] ELSE c

\* str.replace("_", " ")
ReplaceUnderscore(s) == [i \in DOMAIN s |-> IF s[i] = "_" THEN " " ELSE s[i]]

\* str.title(): a cased character is upper-cased when the character before it
\* is not cased (or there is none) and lower-cased otherwise.
Title(s) ==
    [i \in DOMAIN s |->
        IF i = 1 \/ ~IsCased(s[i - 1]) THEN ToUpper(s[i]) ELSE ToLower(s[i])]

\* ---------------------------------------------------------------- store

\* Speaker ids (file stems) and display names the model enrolls.
Ids == {<<"a">>, <<"b", "_", "c">>}
Names == {<<"A">>, <<"Z">>}

\* Embedding vectors the provider and the store files can hold.
VecSet == {<<1, 0>>, <<0, 1>>}

EmptyDict == [k \in {} |-> k]

\* A file is absent, holds a truncated / partly written content, or is whole.
AbsentFile == [state |-> "absent", data |-> EmptyDict]
PartialFile == [state |-> "partial", data |-> EmptyDict]
WholeFile(d) == [state |-> "ok", data |-> d]

NoArgs == [inputExists |-> FALSE, id |-> <<>>, name |-> <<>>, embedding |-> <<>>]
NoResult == "none"

Snapshot == [dirExists |-> dirExists, vectors |-> vectors, metaFile |-> metaFile]

Terminal == {"idle", "exit0", "exit1", "returned", "crashed"}

\* dict with key k set to v / with key k removed
DictPut(d, k, v) == [x \in DOMAIN d \cup {k} |-> IF x = k THEN v ELSE d[x]]
DictDel(d, k) == [x \in DOMAIN d \ {k} |-> d[x]]

\* The entry update_metadata writes (name and embedding_dim; the other
\* fields are constants or clock values no operation reads back).
MetaEntry(name, embedding) == [name |-> name, embedding_dim |-> Len(embedding)]

\* match_speakers is not running.
MatchIdle ==
    /\ json_data = <<>>
    /\ threshold = 0
    /\ mapping = EmptyDict
    /\ todo = <<>>
    /\ calls = <<>>
    /\ speaker_embedding = EmptyDict
    /\ mpc = "idle"

\* speaker_mapping_for_header = None
NoHeader == [given |-> FALSE, map |-> EmptyDict]

\* main of match_speakers.py is not running.
RenderIdle ==
    /\ header = NoHeader
    /\ lines = <<>>
    /\ rpc = "idle"

InitStore ==
    /\ dirExists \in BOOLEAN
    /\ vectors = [i \in Ids |-> AbsentFile]
    /\ metaFile = AbsentFile
    /\ op = "none"
    /\ pc = "idle"
    /\ args = NoArgs
    /\ metadata = EmptyDict
    /\ result = NoResult
    /\ pre = Snapshot
    /\ profiles = <<>>
    /\ MatchIdle
    /\ RenderIdle

\* ---- enrollment: extract_speaker_embedding.py main()

\* A new enrollment process starts and validates its input.
EnrollStart(inputExists, id, name) ==
    /\ UNCHANGED <<matchVars, renderVars>>
    /\ pc \in Terminal
    /\ op' = "enroll"
    /\ args' = [inputExists |-> inputExists, id |-> id, name |-> name, embedding |-> <<>>]
    /\ pre' = Snapshot
    /\ metadata' = EmptyDict
    /\ result' = NoResult
    /\ profiles' = <<>>
    /\ pc' = IF inputExists THEN "e_extract" ELSE "exit1"
    /\ UNCHANGED <<dirExists, vectors, metaFile>>

\* extract_embedding: the provider returns a vector or raises.
EnrollExtract ==
    /\ UNCHANGED <<matchVars, renderVars>>
    /\ op = "enroll" /\ pc = "e_extract"
    /\ \/ \E v \in VecSet :
            /\ args' = [args EXCEPT !.embedding = v]
            /\ pc' = "e_save"
       \/ /\ pc' = "exit1"
          /\ UNCHANGED args
    /\ UNCHANGED <<dirExists, vectors, metaFile, op, metadata, result, pre, profiles>>

\* np.save opens the output file for writing (creating / truncating it);
\* with no store directory the open raises and the process dies with code 1.
EnrollSaveOpen ==
    /\ UNCHANGED <<matchVars, renderVars>>
    /\ op = "enroll" /\ pc = "e_save"
    /\ IF dirExists
          THEN /\ vectors' = [vectors EXCEPT ![args.id] = PartialFile]
               /\ pc' = "e_save_write"
          ELSE /\ pc' = "exit1"
               /\ UNCHANGED vectors
    /\ UNCHANGED <<dirExists, metaFile, op, args, metadata, result, pre, profiles>>

\* np.save writes the array and closes the file.
EnrollSaveWrite ==
    /\ UNCHANGED <<matchVars, renderVars>>
    /\ op = "enroll" /\ pc = "e_save_write"
    /\ vectors' = [vectors EXCEPT ![args.id] = WholeFile(args.embedding)]
    /\ pc' = "e_duration"
    /\ UNCHANGED <<dirExists, metaFile, op, args, metadata, result, pre, profiles>>

\* get_audio_duration (called at line 169): a failing ffprobe or an output
\* that is not a number is caught and yields 0.0 (a value no operation reads
\* back); with no ffprobe executable subprocess.run raises FileNotFoundError,
\* which is not caught, and the process dies with code 1.
GetAudioDuration ==
    /\ UNCHANGED <<matchVars, renderVars>>
    /\ op = "enroll" /\ pc = "e_duration"
    /\ \/ pc' = "e_meta_load"
       \/ pc' = "exit1"
    /\ UNCHANGED <<dirExists, vectors, metaFile, op, args, metadata, result, pre, profiles>>

\* update_metadata: read the existing record (json.load raises on a file that
\* is not whole JSON) and set the entry of the speaker id.
UpdateMetadataLoad ==
    /\ UNCHANGED <<matchVars, renderVars>>
    /\ op = "enroll" /\ pc = "e_meta_load"
    /\ IF metaFile.state = "partial"
          THEN /\ pc' = "exit1"
               /\ UNCHANGED metadata
          ELSE /\ metadata' = DictPut(metaFile.data, args.id,
                                     MetaEntry(args.name, args.embedding))
               /\ pc' = "e_meta_open"
    /\ UNCHANGED <<dirExists, vectors, metaFile, op, args, result, pre, profiles>>

\* update_metadata: open(metadata_path, 'w') truncates the record file.
UpdateMetadataOpen ==
    /\ UNCHANGED <<matchVars, renderVars>>
    /\ op = "enroll" /\ pc = "e_meta_open"
    /\ metaFile' = PartialFile
    /\ pc' = "e_meta_dump"
    /\ UNCHANGED <<dirExists, vectors, op, args, metadata, result, pre, profiles>>

\* update_metadata: json.dump writes the whole dict and the file is closed.
UpdateMetadataDump ==
    /\ UNCHANGED <<matchVars, renderVars>>
    /\ op = "enroll" /\ pc = "e_meta_dump"
    /\ metaFile' = WholeFile(metadata)
    /\ pc' = "exit0"
    /\ UNCHANGED <<dirExists, vectors, op, args, metadata, result, pre, profiles>>

\* ---- delete: utils.py delete_speaker()

\* delete_speaker fails to stop at a missing vector file and goes on to the
\* metadata update.
DeleteSpeakerStartNoReturn(id) ==
    /\ UNCHANGED <<matchVars, renderVars>>
    /\ pc \in Terminal
    /\ op' = "delete"
    /\ args' = [NoArgs EXCEPT !.id = id]
    /\ pre' = Snapshot
    /\ metadata' = EmptyDict
    /\ profiles' = <<>>
    /\ vectors' = [vectors EXCEPT ![id] = AbsentFile]
    /\ result' = NoResult
    /\ pc' = "d_meta_load"
    /\ UNCHANGED <<dirExists, metaFile>>

\* A delete process starts: remove <id>.npy if it exists, else return False.
DeleteSpeakerStart(id) ==
    /\ UNCHANGED <<matchVars, renderVars>>
    /\ pc \in Terminal
    /\ op' = "delete"
    /\ args' = [NoArgs EXCEPT !.id = id]
    /\ pre' = Snapshot
    /\ metadata' = EmptyDict
    /\ profiles' = <<>>
    /\ IF vectors[id].state # "absent"
          THEN /\ vectors' = [vectors EXCEPT ![id] = AbsentFile]
               /\ result' = NoResult
               /\ pc' = "d_meta_load"
          ELSE /\ result' = "False"
               /\ pc' = "returned"
               /\ UNCHANGED vectors
    /\ UNCHANGED <<dirExists, metaFile>>

\* load_speakers_metadata, then drop the entry of the id if there is one.
DeleteLoadMetadata ==
    /\ UNCHANGED <<matchVars, renderVars>>
    /\ op = "delete" /\ pc = "d_meta_load"
    /\ IF metaFile.state = "partial"
          THEN /\ pc' = "exit1"
               /\ UNCHANGED <<metadata, result>>
          ELSE IF args.id \in DOMAIN metaFile.data
                  THEN /\ metadata' = DictDel(metaFile.data, args.id)
                       /\ pc' = "d_meta_open"
                       /\ UNCHANGED result
                  ELSE /\ metadata' = metaFile.data
                       /\ result' = "True"
                       /\ pc' = "returned"
    /\ UNCHANGED <<dirExists, vectors, metaFile, op, args, pre, profiles>>

\* save_speakers_metadata: makedirs, then open(metadata_path, 'w') truncates.
SaveSpeakersMetadataOpen ==
    /\ UNCHANGED <<matchVars, renderVars>>
    /\ op = "delete" /\ pc = "d_meta_open"
    /\ dirExists' = TRUE
    /\ metaFile' = PartialFile
    /\ pc' = "d_meta_dump"
    /\ UNCHANGED <<vectors, op, args, metadata, result, pre, profiles>>

\* save_speakers_metadata: json.dump writes the dict; delete_speaker returns True.
SaveSpeakersMetadataDump ==
    /\ UNCHANGED <<matchVars, renderVars>>
    /\ op = "delete" /\ pc = "d_meta_dump"
    /\ metaFile' = WholeFile(metadata)
    /\ result' = "True"
    /\ pc' = "returned"
    /\ UNCHANGED <<dirExists, vectors, op, args, metadata, pre, profiles>>

\* ---- load: match_speakers.py load_speaker_profiles()

\* The ids that have a vector file: what glob("*.npy") yields.
NpyFiles == {i \in Ids : vectors[i].state # "absent"}

\* The orders in which glob may yield a set of files.
Orders(S) ==
    {f \in [1..Cardinality(S) -> S] : \A i, j \in 1..Cardinality(S) : i # j => f[i] # f[j]}

\* display name of a speaker id under a metadata dict
DisplayName(md, id) ==
    IF id \in DOMAIN md THEN md[id].name ELSE Title(ReplaceUnderscore(id))

\* profiles[name] = embedding on a dict kept in insertion order
ProfilesPut(ps, name, embedding) ==
    IF \E i \in DOMAIN ps : ps[i].name = name
        THEN [i \in DOMAIN ps |->
                IF ps[i].name = name THEN [name |-> name, embedding |-> embedding]
                ELSE ps[i]]
        ELSE Append(ps, [name |-> name, embedding |-> embedding])

RECURSIVE LoadLoop(_, _, _, _)
LoadLoop(order, i, md, ps) ==
    IF i > Len(order) THEN ps
    ELSE LoadLoop(order, i + 1, md,
                  ProfilesPut(ps, DisplayName(md, order[i]), vectors[order[i]].data))

\* load_speaker_profiles: the whole call (it only reads the store).
LoadSpeakerProfiles ==
    /\ UNCHANGED <<matchVars, renderVars>>
    /\ pc \in Terminal
    /\ op' = "load"
    /\ args' = NoArgs
    /\ pre' = Snapshot
    /\ metadata' = EmptyDict
    /\ result' = NoResult
    /\ IF ~dirExists
          THEN /\ profiles' = <<>>
               /\ pc' = "returned"
          ELSE IF \/ metaFile.state = "partial"
                  \/ \E i \in NpyFiles : vectors[i].state = "partial"
                  THEN \* json.load / np.load raises
                       /\ profiles' = <<>>
                       /\ pc' = "exit1"
                  ELSE /\ \E order \in Orders(NpyFiles) :
                            profiles' = LoadLoop(order, 1, metaFile.data, <<>>)
                       /\ pc' = "returned"
    /\ UNCHANGED <<dirExists, vectors, metaFile>>

\* ---- the running process is killed (power loss, kill -9) between two steps
Crash ==
    /\ UNCHANGED <<matchVars, renderVars>>
    /\ pc \notin Terminal
    /\ pc' = "crashed"
    /\ UNCHANGED <<dirExists, vectors, metaFile, op, args, metadata, result, pre, profiles>>

\* The store processes when none of them is killed.
NextStoreRun ==
    \/ \E inputExists \in BOOLEAN, id \in Ids, name \in Names :
            EnrollStart(inputExists, id, name)
    \/ EnrollExtract
    \/ EnrollSaveOpen
    \/ EnrollSaveWrite
    \/ GetAudioDuration
    \/ UpdateMetadataLoad
    \/ UpdateMetadataOpen
    \/ UpdateMetadataDump
    \/ \E id \in Ids : DeleteSpeakerStart(id)
    \/ DeleteLoadMetadata
    \/ SaveSpeakersMetadataOpen
    \/ SaveSpeakersMetadataDump
    \/ LoadSpeakerProfiles

\* The store processes, each of which may be killed between two steps.
NextStore ==
    \/ NextStoreRun
    \/ Crash

SpecStore == InitStore /\ [][NextStore]_vars

SpecStoreRun == InitStore /\ [][NextStoreRun]_vars

\* ---------------------------------------------------------------- matcher

\* Python's None (no string: a string is a sequence of one-character strings).
None == <<"None">>

SpeakerPrefix == <<"S", "P", "E", "A", "K", "E", "R", "_">>
Speaker0 == SpeakerPrefix \o <<"0">>
Speaker1 == SpeakerPrefix \o <<"1">>
Unknown == <<"U", "N", "K", "N", "O", "W", "N">>

\* The characters of the model in code-point order (what sorted() compares by).
CodePoints ==
    <<
      " ", "#", "-", ".", "0", "1", "2", "3", "4", "5", "6", "7", "8", "9", ":", "A",
      "B", "C", "D", "E", "F", "G", "H", "I", "J", "K", "L", "M", "N", "O", "P", "Q",
      "R", "S", "T", "U", "V", "W", "X", "Y", "Z", "[", "]", "_", "a", "b", "c", "d",
      "e", "f", "g", "h", "i", "j", "k", "l", "m", "n", "o", "p", "q", "r", "s", "t",
      "u", "v", "w", "x", "y", "z", "→"
    >>

Ord(c) == CHOOSE i \in DOMAIN CodePoints : CodePoints[i] = c

Min(a, b) == IF a <= b THEN a ELSE b

\* a < b on Python strings
StrLess(a, b) ==
    \/ /\ Len(a) < Len(b)
       /\ \A i \in 1..Len(a) : a[i] = b[i]
    \/ \E k \in 1..Min(Len(a), Len(b)) :
            /\ \A i \in 1..(k - 1) : a[i] = b[i]
            /\ Ord(a[k]) < Ord(b[k])

\* sorted(S) for a set of strings
SortedStrings(S) ==
    CHOOSE f \in Orders(S) : \A i, j \in DOMAIN f : i < j => StrLess(f[i], f[j])

\* dict.get(key, default) on a segment record
Get(seg, key, default) == IF key \in DOMAIN seg THEN seg[key] ELSE default

\* "if speaker:" - the segment has a label and it is not the empty string
HasSpeaker(seg) == Get(seg, "speaker", None) \notin {None, <<>>}

\* the set of labels match_speakers collects
Speakers(json) == {json[i].speaker : i \in {k \in DOMAIN json : HasSpeaker(json[k])}}

\* Times are in milliseconds.
MinDurationMs == 2000
MaxSegments == 10

\* extract_speaker_segments: the (start, end) pairs of the label's segments
\* that last at least 2.0 s, in transcript order.
ExtractSpeakerSegments(json, label) ==
    LET Qualifies(seg) ==
            /\ Get(seg, "speaker", None) = label
            /\ Get(seg, "end", 0) - Get(seg, "start", 0) >= MinDurationMs
        sel == SelectSeq(json, Qualifies)
    IN  [i \in DOMAIN sel |-> <<Get(sel[i], "start", 0), Get(sel[i], "end", 0)>>]

Duration(pair) == pair[2] - pair[1]

\* sorted(segments, key=duration, reverse=True): stable, longest first
InsertByDuration(sorted, x) ==
    LET p == Cardinality({i \in DOMAIN sorted : Duration(sorted[i]) >= Duration(x)})
    IN  SubSeq(sorted, 1, p) \o <<x>> \o SubSeq(sorted, p + 1, Len(sorted))

RECURSIVE SortByDurationDesc(_)
SortByDurationDesc(segs) ==
    IF segs = <<>> THEN <<>>
    ELSE InsertByDuration(SortByDurationDesc(SubSeq(segs, 1, Len(segs) - 1)), segs[Len(segs)])

\* the selection without the sort: the first max_segments in transcript order
SegmentsToProcessUnsorted(segments, max_segments) ==
    SubSeq(segments, 1, Min(max_segments, Len(segments)))

\* segments_sorted[:max_segments]
SegmentsToProcess(segments, max_segments) ==
    SubSeq(SortByDurationDesc(segments), 1, Min(max_segments, Len(segments)))

\* The provider's answer for one segment: a vector, or Fail when it raises.
Fail == <<>>
\* The provider's answer to loading the model, when it does not raise.
Loaded == <<"model">>
ProviderVecs == {<<1, 0>>, <<0, 1>>}

RECURSIVE VecSum(_)
VecSum(embs) ==
    IF Len(embs) = 1 THEN embs[1]
    ELSE LET r == VecSum(Tail(embs)) IN [i \in DOMAIN r |-> embs[1][i] + r[i]]

\* np.mean(embeddings, axis=0) as an exact rational vector sum / n
Mean(embs) == [sum |-> VecSum(embs), n |-> Len(embs)]

\* extract_embedding_for_speaker after the model has loaded: the embeddings of
\* the segments whose extraction did not raise, averaged; None if there is none.
ExtractEmbeddingForSpeaker(outcomes) ==
    LET embeddings == SelectSeq(outcomes, LAMBDA e : e # Fail)
    IN  IF embeddings = <<>> THEN [none |-> TRUE, sum |-> <<>>, n |-> 0]
        ELSE [none |-> FALSE] @@ Mean(embeddings)

RECURSIVE DotUpTo(_, _, _)
DotUpTo(a, b, k) == IF k = 0 THEN 0 ELSE a[k] * b[k] + DotUpTo(a, b, k - 1)
Dot(a, b) == DotUpTo(a, b, Len(a))

Sgn(x) == IF x > 0 THEN 1 ELSE IF x < 0 THEN -1 ELSE 0

\* A similarity is kept exactly, as the signed square of the cosine:
\* sign(c) * c^2 = num / den with den > 0, which orders as the cosine does.
\* nan is the 0/0 numpy yields for a zero vector.
NaN == [nan |-> TRUE, num |-> 0, den |-> 1]
MinusOne == [nan |-> FALSE, num |-> -1, den |-> 1]

\* cosine_similarity(a, b) for a = e.sum / e.n (the factor 1/n cancels)
CosineSimilarity(e, b) ==
    LET d == Dot(e.sum, b)
        den == Dot(e.sum, e.sum) * Dot(b, b)
    IN  IF den = 0 THEN NaN ELSE [nan |-> FALSE, num |-> Sgn(d) * d * d, den |-> den]

\* x > y and x >= y on floats (false when either is nan)
SimGT(x, y) == ~x.nan /\ ~y.nan /\ x.num * y.den > y.num * x.den
SimGE(x, y) == ~x.nan /\ ~y.nan /\ x.num * y.den >= y.num * x.den

\* the threshold (hundredths) as a similarity
ThresholdSim(t) == [nan |-> FALSE, num |-> Sgn(t) * t * t, den |-> 10000]

\* the loop over profiles.items(): best_match / best_score after profile i..
RECURSIVE BestLoop(_, _, _, _)
BestLoop(e, ps, i, best) ==
    IF i > Len(ps) THEN best
    ELSE LET similarity == CosineSimilarity(e, ps[i].embedding)
         IN  BestLoop(e, ps, i + 1,
                      IF SimGT(similarity, best.score)
                          THEN [score |-> similarity, match |-> ps[i].name]
                          ELSE best)

BestMatch(e, ps) == BestLoop(e, ps, 1, [score |-> MinusOne, match |-> None])

\* "Apply threshold": what the label resolves to
Resolve(label, e, ps, t) ==
    LET best == BestMatch(e, ps)
    IN  IF SimGE(best.score, ThresholdSim(t)) THEN best.match ELSE label

\* ---- match_speakers(json_data, audio_path, profiles, threshold)

\* match_speakers without the early return for an empty profile dict.
MatchStartNoEarlyReturn ==
    /\ mpc = "start"
    /\ mapping' = EmptyDict
    /\ todo' = SortedStrings(Speakers(json_data))
    /\ mpc' = "loop"
    /\ UNCHANGED <<storeVars, renderVars, profiles, json_data, threshold, calls, speaker_embedding>>

\* Lines 180-195: collect the labels; with no profiles return the identity.
MatchStart ==
    /\ mpc = "start"
    /\ IF profiles = <<>>
          THEN /\ mapping' = [l \in Speakers(json_data) |-> l]
               /\ todo' = <<>>
               /\ mpc' = "returned"
          ELSE /\ mapping' = EmptyDict
               /\ todo' = SortedStrings(Speakers(json_data))
               /\ mpc' = "loop"
    /\ UNCHANGED <<storeVars, renderVars, profiles, json_data, threshold, calls, speaker_embedding>>

\* One loop iteration, lines 198-207: the label has no segment of >= 2.0 s.
MatchLabelNoSegments ==
    /\ mpc = "loop" /\ todo # <<>>
    /\ ExtractSpeakerSegments(json_data, Head(todo)) = <<>>
    /\ mapping' = DictPut(mapping, Head(todo), Head(todo))
    /\ todo' = Tail(todo)
    /\ UNCHANGED <<storeVars, renderVars, profiles, json_data, threshold, calls, speaker_embedding, mpc>>

\* One loop iteration, lines 209-217: loading the model raises inside
\* extract_embedding_for_speaker and match_speakers catches it.
MatchLabelLoadFails ==
    /\ mpc = "loop" /\ todo # <<>>
    /\ ExtractSpeakerSegments(json_data, Head(todo)) # <<>>
    /\ calls' = Append(calls, [kind |-> "load", label |-> Head(todo), segment |-> <<>>,
                                answer |-> Fail])
    /\ mapping' = DictPut(mapping, Head(todo), Head(todo))
    /\ todo' = Tail(todo)
    /\ UNCHANGED <<storeVars, renderVars, profiles, json_data, threshold, speaker_embedding, mpc>>

\* One loop iteration, lines 209-241: the model loads, each selected segment
\* is cropped (outcomes[i] is the provider's answer for the i-th of them),
\* and the label is resolved.
MatchLabelExtract(outcomes) ==
    /\ mpc = "loop" /\ todo # <<>>
    /\ LET label == Head(todo)
           segments == ExtractSpeakerSegments(json_data, label)
           toProcess == SegmentsToProcess(segments, MaxSegments)
           e == ExtractEmbeddingForSpeaker(outcomes)
       IN  /\ segments # <<>>
           /\ DOMAIN outcomes = DOMAIN toProcess
           /\ calls' = calls
                         \o <<[kind |-> "load", label |-> label, segment |-> <<>>,
                               answer |-> Loaded]>>
                         \o [i \in DOMAIN toProcess |->
                                [kind |-> "crop", label |-> label, segment |-> toProcess[i],
                                 answer |-> outcomes[i]]]
           /\ speaker_embedding' = DictPut(speaker_embedding, label, e)
           /\ mapping' = DictPut(mapping, label,
                                 IF e.none THEN label
                                 ELSE Resolve(label, e, profiles, threshold))
    /\ todo' = Tail(todo)
    /\ UNCHANGED <<storeVars, renderVars, profiles, json_data, threshold, mpc>>

\* Line 243: return mapping.
MatchReturn ==
    /\ mpc = "loop" /\ todo = <<>>
    /\ mpc' = "returned"
    /\ UNCHANGED <<storeVars, renderVars, profiles, json_data, threshold, mapping, todo, calls, speaker_embedding>>

\* ---- inputs of the matcher

MaxSegs == 2

Text == <<"h", "i">>

Labelled(start, end, label) ==
    [start |-> start, end |-> end, text |-> Text, speaker |-> label]
Unlabelled(start, end) == [start |-> start, end |-> end, text |-> Text]

\* (start, end) in ms: 1.0 s, exactly 2.0 s and 3.0 s long
MatchTimes == {<<0, 1000>>, <<1000, 3000>>, <<5000, 8000>>}

MatchSegs ==
    {Labelled(t[1], t[2], l) : t \in MatchTimes, l \in {Speaker0, Speaker1}}
        \cup {Unlabelled(0, 3000)}

SeqsUpTo(S, n) == UNION {[1..k -> S] : k \in 0..n}

ProfileVecs == {<<4, 3>>, <<3, 4>>, <<-1, 0>>}
NameA == <<"A">>
NameB == <<"B">>

\* profile dicts: none, one profile, two profiles
ProfileDicts ==
    {<<>>}
        \cup {<<[name |-> NameA, embedding |-> v]>> : v \in ProfileVecs}
        \cup {<<[name |-> NameA, embedding |-> v], [name |-> NameB, embedding |-> w]>> :
                v \in ProfileVecs, w \in ProfileVecs}

\* thresholds in hundredths: the default 0.75, 0.85 and -1.0
Thresholds == {75, 85, -100}

\* No store process is running and the store is empty.
StoreIdle ==
    /\ dirExists = FALSE
    /\ vectors = [i \in Ids |-> AbsentFile]
    /\ metaFile = AbsentFile
    /\ op = "none"
    /\ pc = "idle"
    /\ args = NoArgs
    /\ metadata = EmptyDict
    /\ result = NoResult
    /\ pre = Snapshot

InitMatch ==
    /\ StoreIdle
    /\ profiles \in ProfileDicts
    /\ json_data \in SeqsUpTo(MatchSegs, MaxSegs)
    /\ threshold \in Thresholds
    /\ mapping = EmptyDict
    /\ todo = <<>>
    /\ calls = <<>>
    /\ speaker_embedding = EmptyDict
    /\ mpc = "start"
    /\ RenderIdle

NextMatch ==
    \/ MatchStart
    \/ MatchLabelNoSegments
    \/ MatchLabelLoadFails
    \/ \E outcomes \in SeqsUpTo(ProviderVecs \cup {Fail}, MaxSegs) : MatchLabelExtract(outcomes)
    \/ MatchReturn

SpecMatch == InitMatch /\ [][NextMatch]_vars

\* ---- match_speakers on transcripts with more segments than max_segments

MaxLongSegs == 12

\* spacing of the segment starts, in ms
SegmentStride == 10000

\* the sequence of length n that repeats the tuple p
Periodic(p, n) == [i \in 1..n |-> p[((i - 1) % Len(p)) + 1]]

\* a segment moved to the i-th slot of the recording
AtSlot(seg, i) ==
    [seg EXCEPT !.start = @ + (i - 1) * SegmentStride,
                !.end = @ + (i - 1) * SegmentStride]

\* the transcript of n segments whose labels and durations repeat the triple p
LongTranscript(p, n) ==
    LET kinds == Periodic(p, n) IN [i \in 1..n |-> AtSlot(kinds[i], i)]

SegPatterns == MatchSegs \X MatchSegs \X MatchSegs

\* one period of each pattern, and MaxLongSegs segments of it
LongTranscripts ==
    UNION {{LongTranscript(p, n) : n \in {Len(p), MaxLongSegs}} : p \in SegPatterns}

\* the provider's answers for the selected segments repeat a pair of answers
AnswerPatterns == (ProviderVecs \cup {Fail}) \X (ProviderVecs \cup {Fail})

\* how many segments of the label at hand the provider is asked about
SelectedCount ==
    IF todo = <<>> THEN 0
    ELSE Min(MaxSegments, Len(ExtractSpeakerSegments(json_data, Head(todo))))

\* one stored profile
LongProfiles == <<[name |-> NameA, embedding |-> <<4, 3>>]>>

InitMatchLong ==
    /\ StoreIdle
    /\ profiles = LongProfiles
    /\ json_data \in LongTranscripts
    /\ threshold \in Thresholds
    /\ mapping = EmptyDict
    /\ todo = <<>>
    /\ calls = <<>>
    /\ speaker_embedding = EmptyDict
    /\ mpc = "start"
    /\ RenderIdle

NextMatchLong ==
    \/ MatchStart
    \/ MatchLabelNoSegments
    \/ MatchLabelLoadFails
    \/ \E q \in AnswerPatterns : MatchLabelExtract(Periodic(q, SelectedCount))
    \/ MatchReturn

SpecMatchLong == InitMatchLong /\ [][NextMatchLong]_vars

\* ---------------------------------------------------------------- renderer

UnknownSpeakerText == <<"[", "U", "n", "k", "n", "o", "w", "n", " ", "S", "p", "e", "a", "k", "e", "r", "]">>
NotMatchedText == <<"[", "N", "o", "t", " ", "M", "a", "t", "c", "h", "e", "d", "]">>
HeaderTitle == <<"#", "#", " ", "S", "p", "e", "a", "k", "e", "r", " ", "M", "a", "p", "p", "i", "n", "g", ":">>
Separator == <<"-", "-", "-">>

\* str.startswith
StartsWith(str, prefix) ==
    Len(str) >= Len(prefix) /\ SubSeq(str, 1, Len(prefix)) = prefix

\* build_speaker_header_mapping that has no case for the reserved label.
BuildSpeakerHeaderMappingNoUnknown(original_mapping) ==
    [original_label \in DOMAIN original_mapping |->
        IF original_label = original_mapping[original_label]
                /\ StartsWith(original_label, SpeakerPrefix)
            THEN NotMatchedText
            ELSE original_mapping[original_label]]

\* build_speaker_header_mapping
BuildSpeakerHeaderMapping(original_mapping) ==
    [original_label \in DOMAIN original_mapping |->
        LET final_name == original_mapping[original_label]
        IN  IF original_label = Unknown THEN UnknownSpeakerText
            ELSE IF original_label = final_name
                THEN IF StartsWith(original_label, SpeakerPrefix)
                        THEN NotMatchedText
                        ELSE final_name
                ELSE final_name]

\* apply_speaker_mapping written with mapping.get(old_speaker, "UNKNOWN"): a
\* segment whose label has no entry gets the reserved label.
ApplySpeakerMappingDefaultUnknown(json, map) ==
    [i \in DOMAIN json |->
        LET old_speaker == Get(json[i], "speaker", None)
        IN  IF old_speaker \notin {None, <<>>} /\ old_speaker \in DOMAIN map
                THEN [json[i] EXCEPT !.speaker = map[old_speaker]]
                ELSE [speaker |-> Unknown] @@ json[i]]

\* apply_speaker_mapping
ApplySpeakerMapping(json, map) ==
    [i \in DOMAIN json |->
        LET old_speaker == Get(json[i], "speaker", None)
        IN  IF old_speaker \notin {None, <<>>} /\ old_speaker \in DOMAIN map
                THEN [json[i] EXCEPT !.speaker = map[old_speaker]]
                ELSE json[i]]

DigitChars == <<"0", "1", "2", "3", "4", "5", "6", "7", "8", "9">>

RECURSIVE Digits(_)
Digits(n) ==
    IF n < 10 THEN <<DigitChars[n + 1]>>
    ELSE Digits(n \div 10) \o <<DigitChars[(n % 10) + 1]>>

\* an integer zero-padded to at least two digits ("02d", and each side of "05.2f")
Pad2(n) == IF n < 10 THEN <<"0">> \o Digits(n) ELSE Digits(n)

\* minutes = int(start // 60), for a start in milliseconds
Minutes(start) == start \div 60000

\* seconds = start % 60, in milliseconds
Seconds(start) == start % 60000

\* f"{seconds:05.2f}": the seconds rounded to hundredths (to nearest; the
\* model's start times are never half-way between two hundredths)
FormatSeconds(ms) ==
    LET h == (ms + 5) \div 10
    IN  Pad2(h \div 100) \o <<".">> \o Pad2(h % 100)

\* timestamp = f"[{minutes:02d}:{seconds:05.2f}]"
Timestamp(start) ==
    <<"[">> \o Pad2(Minutes(start)) \o <<":">> \o FormatSeconds(Seconds(start)) \o <<"]">>

\* str.strip()
RECURSIVE LStrip(_)
LStrip(t) == IF t # <<>> /\ Head(t) = " " THEN LStrip(Tail(t)) ELSE t
RECURSIVE RStrip(_)
RStrip(t) ==
    IF t # <<>> /\ t[Len(t)] = " " THEN RStrip(SubSeq(t, 1, Len(t) - 1)) ELSE t
Strip(t) == RStrip(LStrip(t))

\* line = f"{timestamp} {speaker}: {text}"
SegmentLine(segment) ==
    Timestamp(Get(segment, "start", 0)) \o <<" ">> \o Get(segment, "speaker", Unknown)
        \o <<":", " ">> \o Strip(Get(segment, "text", <<>>))

\* f"- {original_label} -> {final_name}" (with the arrow character)
HeaderLine(original_label, final_name) ==
    <<"-", " ">> \o original_label \o <<" ", "→", " ">> \o final_name

\* the mapping's keys in an order that is not sorted
UnsortedItems(map) ==
    LET f == SortedStrings(DOMAIN map)
    IN  [i \in DOMAIN f |-> f[Len(f) + 1 - i]]

\* sorted(speaker_mapping.items()): the keys in sorted order
SortedItems(map) == SortedStrings(DOMAIN map)

\* generate_txt_output: the lines written
GenerateTxtOutput(json, speaker_mapping) ==
    LET keys == SortedItems(speaker_mapping.map)
        block ==
            IF speaker_mapping.given /\ DOMAIN speaker_mapping.map # {}
                THEN <<HeaderTitle>>
                        \o [i \in DOMAIN keys |->
                                HeaderLine(keys[i], speaker_mapping.map[keys[i]])]
                        \o <<<<>>, Separator, <<>>>>
                ELSE <<>>
    IN  block \o [i \in DOMAIN json |-> SegmentLine(json[i])]

\* ---- main of match_speakers.py, from the return of match_speakers on

\* Line 378: speaker_mapping_for_header = build_speaker_header_mapping(mapping)
BuildHeader ==
    /\ rpc = "matched"
    /\ header' = [given |-> TRUE, map |-> BuildSpeakerHeaderMapping(mapping)]
    /\ rpc' = "header_built"
    /\ UNCHANGED <<storeVars, profiles, matchVars, lines>>

\* Line 381: json_data = apply_speaker_mapping(json_data, mapping)
ApplyMapping ==
    /\ rpc = "header_built"
    /\ json_data' = ApplySpeakerMapping(json_data, mapping)
    /\ rpc' = "applied"
    /\ UNCHANGED <<storeVars, profiles, threshold, mapping, todo, calls,
                   speaker_embedding, mpc, header, lines>>

\* Line 391: generate_txt_output(json_data, args.output_txt, speaker_mapping_for_header)
GenerateOutput ==
    /\ rpc \in {"applied", "nomatch"}
    /\ lines' = GenerateTxtOutput(json_data, header)
    /\ rpc' = "rendered"
    /\ UNCHANGED <<storeVars, profiles, matchVars, header>>

\* ---- inputs of the renderer

MaxRenderSegs == 2

LabelX == <<"X">>
\* the empty string: a label that "if speaker:" / "if old_speaker" treat as none
EmptyLabel == <<>>
RenderLabels == {Speaker0, Unknown, LabelX, EmptyLabel}
RenderText == <<" ", "h", "i", " ">>

\* start times in ms: 0 s, 75.5 s, 59.999 s, 100 min
RenderStarts == {0, 75500, 59999, 6000000}

RenderSegs ==
    {[start |-> t, end |-> t + 1000, text |-> RenderText, speaker |-> l] :
        t \in RenderStarts, l \in RenderLabels}
        \cup {[start |-> t, end |-> t + 1000, text |-> RenderText] : t \in RenderStarts}

\* what match_speakers can return for a transcript: each label maps to
\* itself or to a profile's display name
RawMappings(json) ==
    {m \in [Speakers(json) -> RenderLabels \cup {NameA}] :
        \A l \in DOMAIN m : m[l] = l \/ m[l] = NameA}

InitRender ==
    /\ StoreIdle
    /\ profiles = <<>>
    /\ json_data \in SeqsUpTo(RenderSegs, MaxRenderSegs)
    /\ threshold = 0
    /\ todo = <<>>
    /\ calls = <<>>
    /\ speaker_embedding = EmptyDict
    /\ mpc = "idle"
    /\ header = NoHeader
    /\ lines = <<>>
    /\ \/ /\ rpc = "matched"
          /\ mapping \in RawMappings(json_data)
       \/ /\ rpc = "nomatch"
          /\ mapping = EmptyDict

NextRender ==
    \/ BuildHeader
    \/ ApplyMapping
    \/ GenerateOutput

SpecRender == InitRender /\ [][NextRender]_vars

\* ---------------------------------------------------------------- store claims

\* What the metadata record says about one id.
EntryOf(mf, id) ==
    [readable |-> mf.state # "partial",
     entry |-> IF id \in DOMAIN mf.data THEN <<mf.data[id]>> ELSE <<>>]

UpsertBothNew ==
    /\ vectors[args.id] = WholeFile(args.embedding)
    /\ EntryOf(metaFile, args.id) =
            [readable |-> TRUE, entry |-> <<MetaEntry(args.name, args.embedding)>>]

UpsertNeitherChanged ==
    /\ vectors[args.id] = pre.vectors[args.id]
    /\ EntryOf(metaFile, args.id) = EntryOf(pre.metaFile, args.id)

\* C1: in every state an enrollment leaves behind (exit or crash), the vector
\* file and the metadata entry of the enrolled id either both hold the new
\* profile or are both as they were before the enrollment started.
C1_UpsertAtomic ==
    (op = "enroll" /\ pc \in {"exit0", "exit1", "crashed"})
        => (UpsertBothNew \/ UpsertNeitherChanged)

\* C2: after a crash of an enrollment or a delete that started with a readable
\* metadata record, the record is still readable and the entry of every id
\* other than the one written or deleted is as it was before.
C2_CrashKeepsOtherEntries ==
    (op \in {"enroll", "delete"} /\ pc = "crashed" /\ pre.metaFile.state # "partial")
        => /\ metaFile.state # "partial"
           /\ \A id \in Ids \ {args.id} :
                EntryOf(metaFile, id) = EntryOf(pre.metaFile, id)

\* C3: delete_speaker(id) with no vector file for id returns False and leaves
\* the directory, every vector file and the metadata record file unchanged.
C3_DeleteMissingNoEffect ==
    (op = "delete" /\ pre.vectors[args.id].state = "absent")
        => /\ pc = "returned"
           /\ result = "False"
           /\ dirExists = pre.dirExists
           /\ vectors = pre.vectors
           /\ metaFile = pre.metaFile

\* C3 witness: a delete of an id with no vector file but a stale metadata entry.
C3_Witness ==
    /\ op = "delete" /\ pc = "returned" /\ result = "False"
    /\ pre.vectors[args.id].state = "absent"
    /\ args.id \in DOMAIN pre.metaFile.data

\* C4: load_speaker_profiles returns exactly one profile per vector file, each
\* under the metadata name of its id (or the title-cased id with underscores
\* replaced by spaces), nothing for metadata entries without a vector file, and
\* the empty set when the directory is missing.
C4_LoadOneProfilePerVectorFile ==
    (op = "load" /\ pc = "returned")
        => /\ (~dirExists => profiles = <<>>)
           /\ Len(profiles) = Cardinality(NpyFiles)
           /\ \A id \in NpyFiles : \E i \in DOMAIN profiles :
                profiles[i] = [name |-> DisplayName(metaFile.data, id),
                               embedding |-> vectors[id].data]
           /\ \A i \in DOMAIN profiles : \E id \in NpyFiles :
                profiles[i] = [name |-> DisplayName(metaFile.data, id),
                               embedding |-> vectors[id].data]

\* The store is as it was when the running process started.
StoreUnchanged ==
    /\ dirExists = pre.dirExists
    /\ vectors = pre.vectors
    /\ metaFile = pre.metaFile

\* The enrollment had no input file, or had one and got no embedding.
EnrollInputOrProviderFailed == ~args.inputExists \/ args.embedding = <<>>

\* C12: an enrollment that ends with a missing input file or a failed
\* provider call ends with exit code 1 and leaves the store unchanged, and an
\* enrollment that has changed the vector file or the metadata record ends
\* with exit code 0.
C12_WritesOnlyOnExit0 ==
    (op = "enroll" /\ pc \in {"exit0", "exit1"})
        => /\ EnrollInputOrProviderFailed => (pc = "exit1" /\ StoreUnchanged)
           /\ ~StoreUnchanged => pc = "exit0"

\* ---------------------------------------------------------------- matcher claims

\* The distinct speaker labels of a transcript.
TranscriptLabels(json) ==
    {json[i].speaker : i \in {k \in DOMAIN json : "speaker" \in DOMAIN json[k]}}

ProfileNames(ps) == {ps[i].name : i \in DOMAIN ps}

\* The labels whose representative embedding was computed.
EmbeddedLabels == {l \in DOMAIN speaker_embedding : ~speaker_embedding[l].none}

\* Profile i has the maximum similarity to e and is the first to have it.
IsFirstMax(e, ps, i) ==
    /\ \A j \in DOMAIN ps :
        SimGE(CosineSimilarity(e, ps[i].embedding), CosineSimilarity(e, ps[j].embedding))
    /\ \A j \in 1..(i - 1) :
        SimGT(CosineSimilarity(e, ps[i].embedding), CosineSimilarity(e, ps[j].embedding))

\* C6: a label whose representative embedding was computed resolves to the
\* name of the first profile of maximum cosine similarity if that maximum is
\* >= threshold, and to itself otherwise.
C6_BestAboveThreshold ==
    \A l \in EmbeddedLabels : \A i \in DOMAIN profiles :
        IsFirstMax(speaker_embedding[l], profiles, i)
            => mapping[l] =
                IF SimGE(CosineSimilarity(speaker_embedding[l], profiles[i].embedding),
                         ThresholdSim(threshold))
                    THEN profiles[i].name
                    ELSE l

\* C7: with a non-empty profile set match_speakers returns a mapping whose
\* keys are exactly the transcript's labels and whose every value is the label
\* itself or the display name of a stored profile, whatever the provider did.
C7_CompleteMapping ==
    (mpc = "returned" /\ profiles # <<>>)
        => /\ DOMAIN mapping = TranscriptLabels(json_data)
           /\ \A l \in DOMAIN mapping :
                mapping[l] = l \/ mapping[l] \in ProfileNames(profiles)

\* C8: with an empty profile set match_speakers returns the identity mapping
\* over the transcript's labels and never invokes the Embedding Provider.
C8_EmptyProfilesIdentity ==
    (profiles = <<>> /\ mpc # "start")
        => /\ mpc = "returned"
           /\ DOMAIN mapping = TranscriptLabels(json_data)
           /\ \A l \in DOMAIN mapping : mapping[l] = l
           /\ calls = <<>>

\* C8 witness: no profiles, and a transcript with a label that has a segment
\* long enough to be embedded.
C8_Witness ==
    /\ profiles = <<>> /\ mpc = "returned"
    /\ \E l \in DOMAIN mapping : ExtractSpeakerSegments(json_data, l) # <<>>

\* The provider's crop invocations for a label, in order.
CropsOf(l) == SelectSeq(calls, LAMBDA c : c.kind = "crop" /\ c.label = l)

\* The transcript positions of the label's segments of at least 2.0 s.
QualifyingOf(l) ==
    {i \in DOMAIN json_data :
        /\ "speaker" \in DOMAIN json_data[i]
        /\ json_data[i].speaker = l
        /\ json_data[i].end - json_data[i].start >= MinDurationMs}

\* The sum of component k over a sequence of vectors.
RECURSIVE SumComponent(_, _)
SumComponent(vs, k) ==
    IF vs = <<>> THEN 0 ELSE Head(vs)[k] + SumComponent(Tail(vs), k)

RenderedAs(hasBlock) ==
    LET n == Cardinality(DOMAIN header.map)
        off == IF hasBlock THEN n + 4 ELSE 0
    IN  /\ Len(lines) = off + Len(json_data)
        /\ hasBlock =>
            /\ lines[1] = HeaderTitle
            /\ \E f \in Orders(DOMAIN header.map) :
                /\ \A i, j \in DOMAIN f : i < j => StrLess(f[i], f[j])
                /\ \A k \in DOMAIN f :
                    lines[1 + k] = <<"-", " ">> \o f[k] \o <<" ", "→", " ">> \o header.map[f[k]]
            /\ lines[n + 2] = <<>>
            /\ lines[n + 3] = Separator
            /\ lines[n + 4] = <<>>
        /\ ~hasBlock => \A k \in DOMAIN lines : lines[k] \notin {HeaderTitle, Separator}
        /\ \A i \in DOMAIN json_data :
            LET seg == json_data[i]
                line == lines[off + i]
                label == IF "speaker" \in DOMAIN seg THEN seg.speaker ELSE Unknown
                tail == <<" ">> \o label \o <<":", " ">>
            IN  /\ StartsWith(line, <<"[">> \o Pad2(seg.start \div 60000) \o <<":">>)
                /\ \E k \in DOMAIN line :
                    /\ line[k] = "]"
                    /\ SubSeq(line, k + 1, k + Len(tail)) = tail

C11_ApplyKeepsFrame ==
    [][(rpc = "header_built" /\ rpc' = "applied")
        => /\ Len(json_data') = Len(json_data)
           /\ \A i \in DOMAIN json_data :
                LET old == json_data[i]
                    new == json_data'[i]
                IN  /\ new.start = old.start
                    /\ new.end = old.end
                    /\ new.text = old.text
                    /\ IF "speaker" \in DOMAIN old /\ old.speaker \in DOMAIN mapping
                          THEN new = [old EXCEPT !.speaker = mapping[old.speaker]]
                          ELSE new = old]_vars

\* C11 witness: the mapping was applied to a transcript of two segments, the
\* first relabelled to a profile name the transcript cannot hold by itself and
\* the second without a label or with the empty one.
C11_Witness ==
    /\ rpc = "applied"
    /\ Len(json_data) = 2
    /\ Get(json_data[1], "speaker", None) = NameA
    /\ Get(json_data[2], "speaker", None) \in {None, EmptyLabel}
    /\ json_data[1].start > json_data[2].start

\* C10: the timestamp of every segment line is [MM:SS.hh] with MM the start
\* integer-divided by 60 s and SS.hh, within 00.00..59.99, such that
\* MM * 60 + SS.hh is the start time to hundredths.
C10_TimestampFields ==
    rpc = "rendered" =>
        \A i \in DOMAIN json_data :
            LET start == json_data[i].start
                line == lines[Len(lines) - Len(json_data) + i]
                mm == start \div 60000
                sshh == ((start + 5) \div 10) - mm * 6000
            IN  /\ sshh \in 0..5999
                /\ StartsWith(line, <<"[">> \o Pad2(mm) \o <<":">> \o Pad2(sshh \div 100)
                                        \o <<".">> \o Pad2(sshh % 100) \o <<"]">>)

====
